---- MODULE Spec2Model ----
(***************************************************************************)
(* Model of the dex-hedger core: the reconciliation engine                 *)
(* (core/workers.py, AutoBalanceWorker) and the exchange adapters          *)
(* (core/wrappers/pacifica.py, core/wrappers/lighter.py).                  *)
(*                                                                         *)
(* Units.  Quantities are integers in units of 1e-6 (the engine's          *)
(* tolerance 0.000001 is Epsilon = 1).  Time is counted in ticks of one    *)
(* msleep(100) of the engine's wait loop, so one second is TicksPerSecond  *)
(* ticks.  Code that does not sleep takes no time: a tick passes only      *)
(* while the engine thread sleeps and the main thread is between handlers. *)
(*                                                                         *)
(* The specifications share the variables: SpecEngine and its variants     *)
(* run one AutoBalanceWorker against its callers in main.py (set_config,   *)
(* start, update_states, stop); SpecAdapter runs the two adapters'         *)
(* streaming life cycle; SpecStore, SpecSelection, SpecOrders and SpecAuth *)
(* run MainWindow's handlers; SpecSigner the request signers; SpecFollower,*)
(* SpecSymbol and SpecSuccessor run the worker's thread beside the adapter *)
(* or the handlers it depends on.  Each leaves the others' variables       *)
(* unchanged.                                                              *)
(***************************************************************************)
EXTENDS Integers, Sequences, FiniteSets, TLC

\* Python None where the other values are strings (an adapter, a price).
None == "None"

\* Python None where the other values are records (a state, a position).
Absent == [absent |-> TRUE]

\* since_order before the first corrective order.
Never == 0 - 1

\* ---------------------------------------------------------------- bounds
\* Largest position quantity an exchange reports, in units of 1e-6.
MaxQty == 1
\* Largest engine interval set through set_config, in ticks of 100 ms.
MaxInterval == 10
\* Cap of the stop-latency counter since_stop.
MaxLatency == 2

\* ------------------------------------------------------ program constants
\* workers.py:89   if abs(discrepancy) > 0.000001        (units of 1e-6)
Epsilon == 1
\* workers.py:112  self.sleep(3)                          (seconds)
CooldownSeconds == 3
\* workers.py:58   self.msleep(100)                       (milliseconds)
MsleepMs == 100

TicksPerSecond == 1000 \div MsleepMs

\* ------------------------------------------------------------ core/types
ExchangeIds == {"pacifica", "lighter"}
\* SupportedSymbol; two of its three members (BTC, ETH, SOL) are enumerated.
Symbols == {"BTC", "ETH"}
LONG == "LONG"
SHORT == "SHORT"
NONE == "NONE"
MKT == "MKT"
LMT == "LMT"

\* Position(direction, quantity); entryPrice is not read by the engine.
Positions ==
    {[direction |-> NONE, quantity |-> 0]}
    \cup [direction : {LONG, SHORT}, quantity : 1..MaxQty]

\* ExchangeState; of its fields the engine reads position alone.
ExchangeStates == [position : Positions]

OptStates == ExchangeStates \cup {Absent}

\* The interval values set_config is given, in ticks: 0 s, 0.1 s and the bound.
Intervals == {0, 1, MaxInterval}

Abs(x) == IF x < 0 THEN -x ELSE x

Min(x, y) == IF x < y THEN x ELSE y

VARIABLES
    \* AutoBalanceWorker attributes
    api_a, api_b, interval, symbol, is_running, state_a, state_b,
    \* engine thread: position in run()/check_balance() and their locals
    epc, pos_a, pos_b, slept_time,
    \* ticks left of the engine thread's current sleep
    esleep,
    \* main thread inside update_states: the state_b still to be assigned
    us_pending,
    \* observation of the last step: the positions the engine evaluated, the
    \* adapter calls it made and the log entries it emitted
    out_eval, out_calls, elog,
    \* clocks: ticks since the last corrective order, since stop() was called
    since_order, stop_requested, since_stop,
    \* history of the pushes: the state_b pushed together with the state_a
    \* that check_balance read at line 67 (kept until line 68)
    a_mate,
    \* adapters (BaseExchangeAPI.client, poll_timer.isActive(), self.symbol),
    \* each a function of the exchange id
    client, timer_active, ad_symbol,
    \* pending QTimer.singleShot(500, self._poll_data) calls of each adapter
    oob,
    \* observation of the last adapter handler: which one ran and from what
    \* adapter state, the HTTP requests it sent and the events it emitted
    last_op, net, emitted,
    \* MainWindow attributes: the strategy selection, the store of the latest
    \* account state and price of each exchange and of the open orders, the
    \* order symbol, the exchanges that have an adapter and those that
    \* authenticated, whether autobalance_worker holds a worker
    selected_A, selected_B, exchange_states, open_orders, prices,
    order_symbol, api_clients, authenticated_exchanges, worker,
    \* observation of the last MainWindow handler: which one ran and on what
    \* input, the log entries it wrote, the adapter calls it made and the
    \* pair it emitted on signal_state_updated_for_worker
    m_op, m_log, m_calls, m_pushed,
    \* the signers: the request signed last, with its message and signature,
    \* and the one signed before it
    signed, signed_before

engine_vars ==
    <<api_a, api_b, interval, symbol, is_running, state_a, state_b, epc, pos_a,
      pos_b, slept_time, esleep, us_pending, out_eval, out_calls, elog,
      since_order, stop_requested, since_stop, a_mate>>

adapter_vars == <<client, timer_active, ad_symbol, oob, last_op, net, emitted>>

store_vars ==
    <<selected_A, selected_B, exchange_states, open_orders, prices,
      order_symbol, api_clients, authenticated_exchanges, worker, m_op,
      m_log, m_calls, m_pushed>>

signer_vars == <<signed, signed_before>>

\* what the handlers of the worker, and of the adapters, never touch
outside_engine == <<adapter_vars, store_vars, signer_vars>>

outside_adapter == <<engine_vars, store_vars, signer_vars>>

vars == <<engine_vars, adapter_vars, store_vars, signer_vars>>

\* ------------------------------------------------- AutoBalanceWorker helpers

\* check_balance, "1. 수량 계산": +quantity for LONG, -quantity for SHORT, else 0.
SignedQty(pos) ==
    IF pos.direction = LONG THEN pos.quantity
    ELSE IF pos.direction = SHORT THEN 0 - pos.quantity
    ELSE 0

Discrepancy(pa, pb) == SignedQty(pa) + SignedQty(pb)

CorrectionNeededGe(d) == Abs(d) >= Epsilon

\* workers.py:89
CorrectionNeeded(d) == Abs(d) > Epsilon

CorrectionDirSwapped(d) == IF d > 0 THEN LONG ELSE SHORT

\* workers.py:93
CorrectionDir(d) == IF d > 0 THEN SHORT ELSE LONG

OrderTargetA == api_a

\* workers.py:101  self.api_b.create_order(...)
OrderTarget == api_b

\* The create_order call of check_balance: MKT, no price argument.
CorrectiveOrder(d) ==
    [api |-> OrderTarget, method |-> "create_order", symbol |-> symbol,
     order_type |-> MKT, direction |-> CorrectionDir(d),
     quantity |-> Abs(d), price |-> None]

CooldownSleepMs == (CooldownSeconds * TicksPerSecond) \div 1000

\* workers.py:112  self.sleep(3), in ticks
CooldownSleep == CooldownSeconds * TicksPerSecond

\* self.sleep(self.interval): QThread.sleep takes whole seconds.
SleepSeconds(iv) == (iv \div TicksPerSecond) * TicksPerSecond

Quiet == out_eval' = Absent /\ out_calls' = <<>> /\ elog' = <<>>

Clocks == UNCHANGED <<since_order, stop_requested, since_stop>>

MainIdle == us_pending = <<>>

\* update_states(state_a, state_b) assigns the two attributes one after the
\* other: the state_b that came with the current _state_a
StateBMate == IF us_pending # <<>> THEN us_pending[1] ELSE state_b

ThreadRunning == epc \notin {"notstarted", "finished"}

\* --------------------------------------------------------------- Init
InitWorker ==
    /\ api_a = None /\ api_b = None
    /\ interval = 3 * TicksPerSecond
    /\ symbol = "BTC"
    /\ is_running = FALSE
    /\ state_a = Absent /\ state_b = Absent
    /\ epc = "notstarted"
    /\ pos_a = Absent /\ pos_b = Absent
    /\ slept_time = 0
    /\ esleep = 0
    /\ us_pending = <<>>
    /\ out_eval = Absent /\ out_calls = <<>> /\ elog = <<>>
    /\ since_order = Never /\ stop_requested = FALSE /\ since_stop = 0
    /\ a_mate = Absent

\* ------------------------------------------- main thread: calls of main.py

\* AutoBalanceWorker.set_config, as update_autobalance_worker calls it: both
\* adapters present and different, and the pair of a worker never changes (a
\* selection change that changes the pair goes through an unselected side,
\* which stops and drops the worker).
set_config(a, b, iv, sym) ==
    /\ UNCHANGED outside_engine
    /\ UNCHANGED a_mate
    /\ MainIdle /\ ~stop_requested
    /\ a # b
    /\ api_a = None \/ (a = api_a /\ b = api_b)
    /\ api_a' = a /\ api_b' = b /\ interval' = iv /\ symbol' = sym
    /\ Quiet /\ Clocks
    /\ UNCHANGED <<is_running, state_a, state_b, epc, pos_a, pos_b,
                   slept_time, esleep, us_pending>>

\* QThread.start(), called once per worker, after set_config.
start ==
    /\ UNCHANGED outside_engine
    /\ UNCHANGED a_mate
    /\ MainIdle /\ epc = "notstarted" /\ api_a # None
    /\ epc' = "run_enter"
    /\ Quiet /\ Clocks
    /\ UNCHANGED <<api_a, api_b, interval, symbol, is_running, state_a,
                   state_b, pos_a, pos_b, slept_time, esleep, us_pending>>

\* AutoBalanceWorker.stop, called while isRunning(); the worker is dropped
\* and its update_states slot disconnected right after.
stop ==
    /\ UNCHANGED outside_engine
    /\ UNCHANGED a_mate
    /\ MainIdle /\ ThreadRunning /\ ~stop_requested
    /\ is_running' = FALSE
    /\ stop_requested' = TRUE /\ since_stop' = 0
    /\ out_eval' = Absent /\ out_calls' = <<>>
    /\ elog' = <<"INFO:worker_stopping">>
    /\ UNCHANGED <<api_a, api_b, interval, symbol, state_a, state_b, epc,
                   pos_a, pos_b, slept_time, esleep, us_pending, since_order>>

\* AutoBalanceWorker.update_states, first assignment (self._state_a).
update_states_a(sa, sb) ==
    /\ UNCHANGED outside_engine
    /\ UNCHANGED a_mate
    /\ MainIdle /\ ~stop_requested /\ epc # "notstarted"
    /\ state_a' = sa
    /\ us_pending' = <<sb>>
    /\ Quiet /\ Clocks
    /\ UNCHANGED <<api_a, api_b, interval, symbol, is_running, state_b, epc,
                   pos_a, pos_b, slept_time, esleep>>

\* AutoBalanceWorker.update_states, second assignment (self._state_b).
update_states_b ==
    /\ UNCHANGED outside_engine
    /\ UNCHANGED a_mate
    /\ us_pending # <<>>
    /\ state_b' = us_pending[1]
    /\ us_pending' = <<>>
    /\ Quiet /\ Clocks
    /\ UNCHANGED <<api_a, api_b, interval, symbol, is_running, state_a, epc,
                   pos_a, pos_b, slept_time, esleep>>

\* ------------------------------------------------ engine thread: run()

EngineFrame == UNCHANGED <<api_a, api_b, interval, symbol, state_a, state_b,
                           us_pending>>

\* run, line 36: self.is_running = True
run_enter ==
    /\ UNCHANGED outside_engine
    /\ UNCHANGED a_mate
    /\ epc = "run_enter"
    /\ is_running' = TRUE
    /\ epc' = "while"
    /\ out_eval' = Absent /\ out_calls' = <<>>
    /\ elog' = <<"INFO:worker_started">>
    /\ EngineFrame /\ Clocks
    /\ UNCHANGED <<pos_a, pos_b, slept_time, esleep>>

\* run, line 39: while self.is_running
run_while ==
    /\ UNCHANGED outside_engine
    /\ UNCHANGED a_mate
    /\ epc = "while"
    /\ epc' = IF is_running THEN "check_apis" ELSE "finished"
    /\ Quiet /\ EngineFrame /\ Clocks
    /\ UNCHANGED <<is_running, pos_a, pos_b, slept_time, esleep>>

\* run reads self.interval anew for every wait (lines 42, 47) and at every
\* turn of the wait loop (line 57), never a copy taken earlier
WaitIntervalAtConstruction == 3 * TicksPerSecond

WaitInterval == interval

\* The two waiting branches of run: log a warning, self.sleep(self.interval).
AwaitData(msg) ==
    /\ epc' = "sleep_await"
    /\ esleep' = SleepSeconds(WaitInterval)
    /\ elog' = <<msg>>

\* run, lines 40-43
run_check_apis ==
    /\ UNCHANGED outside_engine
    /\ UNCHANGED a_mate
    /\ epc = "check_apis"
    /\ IF api_a = None \/ api_b = None
       THEN AwaitData("WARN:waiting_apis")
       ELSE epc' = "check_state_a" /\ esleep' = esleep /\ elog' = <<>>
    /\ out_eval' = Absent /\ out_calls' = <<>>
    /\ EngineFrame /\ Clocks
    /\ UNCHANGED <<is_running, pos_a, pos_b, slept_time>>

\* run, line 45, left operand: not self._state_a
run_check_state_a ==
    /\ UNCHANGED outside_engine
    /\ UNCHANGED a_mate
    /\ epc = "check_state_a"
    /\ IF state_a = Absent
       THEN AwaitData("WARN:waiting_state")
       ELSE epc' = "check_state_b" /\ esleep' = esleep /\ elog' = <<>>
    /\ out_eval' = Absent /\ out_calls' = <<>>
    /\ EngineFrame /\ Clocks
    /\ UNCHANGED <<is_running, pos_a, pos_b, slept_time>>

RunStateBKnownAlways == FALSE

\* run, line 45, right operand: not self._state_b
RunStateBAbsent == state_b = Absent

run_check_state_b ==
    /\ UNCHANGED outside_engine
    /\ UNCHANGED a_mate
    /\ epc = "check_state_b"
    /\ IF RunStateBAbsent
       THEN AwaitData("WARN:waiting_state")
       ELSE epc' = "guard_a" /\ esleep' = esleep /\ elog' = <<>>
    /\ out_eval' = Absent /\ out_calls' = <<>>
    /\ EngineFrame /\ Clocks
    /\ UNCHANGED <<is_running, pos_a, pos_b, slept_time>>

\* run, lines 42/47: self.sleep(self.interval) returns; continue
run_await_wake ==
    /\ UNCHANGED outside_engine
    /\ UNCHANGED a_mate
    /\ epc = "sleep_await" /\ esleep = 0
    /\ epc' = "while"
    /\ Quiet /\ EngineFrame /\ Clocks
    /\ UNCHANGED <<is_running, pos_a, pos_b, slept_time, esleep>>

\* run, line 56: check_balance returned; slept_time = 0
ReturnToWait ==
    /\ epc' = "wait_check"
    /\ slept_time' = 0
    /\ pos_a' = Absent /\ pos_b' = Absent

RunExceptDies ==
    /\ epc' = "finished"
    /\ slept_time' = 0
    /\ pos_a' = Absent /\ pos_b' = Absent
    /\ elog' = <<"ERROR:autobalance">>

\* run, lines 52-53: an exception of check_balance is logged; the loop goes on
RunExcept ==
    /\ ReturnToWait
    /\ elog' = <<"ERROR:autobalance">>

\* run, line 57: while slept_time < self.interval and self.is_running
run_wait_check ==
    /\ UNCHANGED outside_engine
    /\ UNCHANGED a_mate
    /\ epc = "wait_check"
    /\ IF slept_time < WaitInterval /\ is_running
       THEN epc' = "msleep" /\ esleep' = 1 /\ slept_time' = slept_time
       ELSE epc' = "while" /\ esleep' = esleep /\ slept_time' = 0
    /\ Quiet /\ EngineFrame /\ Clocks
    /\ UNCHANGED <<is_running, pos_a, pos_b>>

\* run, lines 58-59: msleep(100) returns; slept_time += 0.1
run_wait_wake ==
    /\ UNCHANGED outside_engine
    /\ UNCHANGED a_mate
    /\ epc = "msleep" /\ esleep = 0
    /\ slept_time' = slept_time + 1
    /\ epc' = "wait_check"
    /\ Quiet /\ EngineFrame /\ Clocks
    /\ UNCHANGED <<is_running, pos_a, pos_b, esleep>>

\* ---------------------------------------- engine thread: check_balance()

\* check_balance, line 64, left operand: not self._state_a -> return
check_balance_guard_a ==
    /\ UNCHANGED outside_engine
    /\ UNCHANGED a_mate
    /\ epc = "guard_a"
    /\ IF state_a = Absent
       THEN ReturnToWait
       ELSE epc' = "guard_b" /\ UNCHANGED <<slept_time, pos_a, pos_b>>
    /\ Quiet /\ EngineFrame /\ Clocks
    /\ UNCHANGED <<is_running, esleep>>

\* check_balance, line 64, right operand: not self._state_b -> return
check_balance_guard_b ==
    /\ UNCHANGED outside_engine
    /\ UNCHANGED a_mate
    /\ epc = "guard_b"
    /\ IF state_b = Absent
       THEN ReturnToWait
       ELSE epc' = "read_a" /\ UNCHANGED <<slept_time, pos_a, pos_b>>
    /\ Quiet /\ EngineFrame /\ Clocks
    /\ UNCHANGED <<is_running, esleep>>

\* check_balance, line 67: pos_a = self._state_a.position; None has no
\* attribute position: AttributeError, caught by run
check_balance_read_a ==
    /\ UNCHANGED outside_engine
    /\ a_mate' = (IF state_a = Absent THEN Absent ELSE StateBMate)
    /\ epc = "read_a"
    /\ IF state_a = Absent
       THEN RunExcept
       ELSE /\ pos_a' = state_a.position
            /\ epc' = "read_b"
            /\ elog' = <<>>
            /\ UNCHANGED <<slept_time, pos_b>>
    /\ out_eval' = Absent /\ out_calls' = <<>>
    /\ EngineFrame /\ Clocks
    /\ UNCHANGED <<is_running, esleep>>

\* check_balance, line 68: pos_b = self._state_b.position
check_balance_read_b ==
    /\ UNCHANGED outside_engine
    /\ a_mate' = Absent
    /\ epc = "read_b"
    /\ IF state_b = Absent
       THEN RunExcept
       ELSE /\ pos_b' = state_b.position
            /\ epc' = "correct"
            /\ elog' = <<>>
            /\ UNCHANGED <<slept_time, pos_a>>
    /\ out_eval' = Absent /\ out_calls' = <<>>
    /\ EngineFrame /\ Clocks
    /\ UNCHANGED <<is_running, esleep>>

\* check_balance, lines 70-112: the signed quantities, the discrepancy and,
\* beyond the tolerance, the MKT order on api_b followed by self.sleep(3).
\* Both adapters' create_order return None whatever the exchange answered
\* and raise nothing, so the except branch of line 114 is never taken.
CheckBalanceCorrect ==
    /\ UNCHANGED a_mate
    /\ epc = "correct"
    /\ out_eval' = [a |-> pos_a, b |-> pos_b]
    /\ LET d == Discrepancy(pos_a, pos_b) IN
       IF CorrectionNeeded(d)
       THEN /\ out_calls' = <<CorrectiveOrder(d)>>
            /\ elog' = <<"WARN:discrepancy_detected", "SUCCESS:order_submitted">>
            /\ since_order' = 0
            /\ epc' = "cooldown"
            /\ esleep' = CooldownSleep
            /\ pos_a' = Absent /\ pos_b' = Absent
            /\ UNCHANGED slept_time
       ELSE /\ out_calls' = <<>>
            /\ elog' = <<>>
            /\ ReturnToWait
            /\ UNCHANGED <<since_order, esleep>>
    /\ EngineFrame
    /\ UNCHANGED <<is_running, stop_requested, since_stop>>

\* check_balance from line 70 on, seen from the worker alone: the adapter
\* that receives the order is left aside.
check_balance_correct ==
    /\ UNCHANGED outside_engine
    /\ CheckBalanceCorrect

\* check_balance, line 112: self.sleep(3) returns; check_balance returns
check_balance_cooldown_wake ==
    /\ UNCHANGED outside_engine
    /\ UNCHANGED a_mate
    /\ epc = "cooldown" /\ esleep = 0
    /\ ReturnToWait
    /\ Quiet /\ EngineFrame /\ Clocks
    /\ UNCHANGED <<is_running, esleep>>

\* ------------------------------------------------------------- time

EngineAsleep == epc \in {"sleep_await", "cooldown", "msleep"}

\* 100 ms pass: only while the engine thread sleeps (or does not run) and
\* the main thread is between handlers.
Tick ==
    /\ UNCHANGED outside_engine
    /\ UNCHANGED a_mate
    /\ MainIdle
    /\ \/ EngineAsleep /\ esleep > 0
       \/ ~ThreadRunning
    /\ esleep' = IF EngineAsleep THEN esleep - 1 ELSE esleep
    /\ since_order' = IF since_order = Never THEN Never
                      ELSE Min(since_order + 1, CooldownSeconds * TicksPerSecond)
    /\ since_stop' = IF stop_requested /\ ThreadRunning
                     THEN Min(since_stop + 1, MaxLatency)
                     ELSE since_stop
    /\ Quiet
    /\ UNCHANGED <<api_a, api_b, interval, symbol, is_running, state_a,
                   state_b, epc, pos_a, pos_b, slept_time, us_pending,
                   stop_requested>>

\* ------------------------------------------------------- specification

MainStep ==
    \/ \E a \in ExchangeIds, b \in ExchangeIds, iv \in Intervals, sym \in Symbols :
          set_config(a, b, iv, sym)
    \/ start
    \/ stop
    \/ \E sa \in OptStates, sb \in OptStates : update_states_a(sa, sb)
    \/ update_states_b

\* the steps of the engine thread that touch the worker alone
EngineControl ==
    \/ run_enter
    \/ run_while
    \/ run_check_apis
    \/ run_check_state_a
    \/ run_check_state_b
    \/ run_await_wake
    \/ check_balance_guard_a
    \/ check_balance_guard_b
    \/ check_balance_read_a
    \/ check_balance_read_b
    \/ check_balance_cooldown_wake
    \/ run_wait_check
    \/ run_wait_wake

EngineStep == EngineControl \/ check_balance_correct

NextEngine == MainStep \/ EngineStep \/ Tick



\* ================================================================ adapters
\* PacificaAPI and LighterAPI.  Their handlers run on the main thread (slots
\* and QTimer callbacks of the event loop), one at a time.

Connected == "connected"

\* Largest number of pending singleShot polls of one adapter.
MaxOob == 1

Log(ex, tag) == [ex |-> ex, kind |-> "log", tag |-> tag]

Event(ex, kind) == [ex |-> ex, kind |-> kind, tag |-> "data"]

Request(name) == [req |-> name]

\* The position part of the exchange's answer to the positions fetch: no
\* value (None), an empty one ([] for pacifica, {} for lighter), or a
\* position record with its side and size (entry price and pnl nonzero).
NoPosition == [kind |-> "absent", side |-> "long", size |-> 0, entry |-> 0,
               pnl |-> 0]

PositionPayloads ==
    {NoPosition, [NoPosition EXCEPT !.kind = "empty"]}
    \cup [kind : {"record"}, side : {"long", "short"}, size : 0..MaxQty,
          entry : {1}, pnl : {1}]

\* What the exchange answers to the requests of one poll: fail is the
\* first fetch that fails (0: none; 1 price, 2 collateral, 3 positions,
\* 4 orders), network tells a connectivity failure from an error answer,
\* pos is the position payload when the positions fetch succeeds.
PollOutcomes ==
    [fail : {0}, network : {FALSE}, pos : PositionPayloads]
    \cup [fail : {4}, network : BOOLEAN, pos : PositionPayloads]
    \cup [fail : 1..3, network : BOOLEAN, pos : {NoPosition}]

NoOutcome == [fail |-> 0, network |-> FALSE, pos |-> NoPosition]

\* The answers enumerated for a start_streaming call: those without a
\* position.
StartOutcomes == {r \in PollOutcomes : r.pos = NoPosition}

Responses == {"ok", "exchange_error", "network_error"}

\* ApiCredentials as connect reads them: apiKey non-empty; apiSecret
\* empty, undecodable, or usable; accountAddress given; accountId absent,
\* 0, or another number; l1Address given.
AllCredentials ==
    [key : BOOLEAN, secret : {"empty", "malformed", "good"},
     address : BOOLEAN, account_id : {"absent", "zero", "set"}, l1 : BOOLEAN]

Defects(c) ==
    (IF c.key THEN 0 ELSE 1) + (IF c.secret = "good" THEN 0 ELSE 1)
    + (IF c.address THEN 0 ELSE 1) + (IF c.account_id = "set" THEN 0 ELSE 1)
    + (IF c.l1 THEN 0 ELSE 1)

\* The credentials enumerated: complete ones and those with one defect.
Credentials == {c \in AllCredentials : Defects(c) <= 1}

InitAdapters ==
    /\ client = [ex \in ExchangeIds |-> None]
    /\ timer_active = [ex \in ExchangeIds |-> FALSE]
    /\ ad_symbol = [ex \in ExchangeIds |-> "BTC"]
    /\ oob = [ex \in ExchangeIds |-> 0]
    /\ last_op = [op |-> "none", ex |-> None, was_connected |-> FALSE,
                  was_active |-> FALSE, r |-> NoOutcome]
    /\ net = <<>>
    /\ emitted = <<>>

Op(name, ex, r) ==
    [op |-> name, ex |-> ex, was_connected |-> client[ex] # None,
     was_active |-> timer_active[ex], r |-> r]

FetchesPositionsFirst ==
    <<Request("positions"), Request("price"), Request("collateral"),
      Request("orders")>>

\* The requests of _poll_data, in its order, up to the first that fails.
Fetches == <<Request("price"), Request("collateral"), Request("positions"),
             Request("orders")>>

PollRequests(r) == IF r.fail = 0 THEN Fetches ELSE SubSeq(Fetches, 1, r.fail)

StopsOnAnyFailure(ex, r) == r.fail > 0

\* LighterAPI: requests.get raises the connectivity error through the client
\* and _poll_data stops streaming.  PacificaAPI: Client._request turns every
\* failure into an {"error": ...} answer, which _poll_data raises as a plain
\* Exception.
NetworkErrorStops(ex, r) == ex = "lighter" /\ r.fail > 0 /\ r.network

FlatStateShort ==
    [position |-> [direction |-> SHORT, quantity |-> 0, entryPrice |-> 0],
     pnl |-> 0]

\* _poll_data, else branch of the position translation.
FlatState ==
    [position |-> [direction |-> NONE, quantity |-> 0, entryPrice |-> 0],
     pnl |-> 0]

\* _poll_data, the test of the position translation.  pacifica:
\* data[0] if data else None, then "if pos"; lighter: "if position_data and
\* float(position_data['size']) > 0".
HasPosition(ex, p) ==
    IF ex = "pacifica" THEN p.kind = "record"
    ELSE p.kind = "record" /\ p.size > 0

\* The position and pnl of the ExchangeState built from a position payload.
TranslatePosition(ex, p) ==
    IF HasPosition(ex, p)
    THEN [position |-> [direction |-> IF p.side = "long" THEN LONG ELSE SHORT,
                        quantity |-> p.size, entryPrice |-> p.entry],
          pnl |-> p.pnl]
    ELSE FlatState

StateEvent(ex, state) ==
    [ex |-> ex, kind |-> "state", tag |-> "data", state |-> state]

\* The events of one _poll_data that got past its guard: the price event
\* follows the price fetch, the state event the collateral and position
\* fetches, the orders event the orders fetch; a failure is logged.
PollEvents(ex, r) ==
    (IF r.fail # 1 THEN <<Event(ex, "price")>> ELSE <<>>)
    \o (IF r.fail \in {0, 4}
        THEN <<StateEvent(ex, TranslatePosition(ex, r.pos))>> ELSE <<>>)
    \o (IF r.fail = 0 THEN <<Event(ex, "orders")>> ELSE <<>>)
    \o (IF r.fail = 0 THEN <<>>
        ELSE IF NetworkErrorStops(ex, r)
        THEN <<Log(ex, "ERROR:network_error_during_poll"),
               Log(ex, "INFO:polling_stopped")>>
        ELSE <<Log(ex, "ERROR:data_poll_failed")>>)

PollDataWhateverTimer(ex, active, r) ==
    IF client[ex] = None
    THEN [timer |-> FALSE, net |-> <<>>,
          emitted |-> <<Log(ex, "INFO:polling_stopped")>>]
    ELSE [timer |-> ~NetworkErrorStops(ex, r), net |-> PollRequests(r),
          emitted |-> PollEvents(ex, r)]

\* _poll_data, called with the poll timer active or not: the timer state it
\* leaves, the requests it sends and the events it emits.
PollData(ex, active, r) ==
    IF client[ex] = None \/ ~active
    THEN [timer |-> FALSE, net |-> <<>>,
          emitted |-> <<Log(ex, "INFO:polling_stopped")>>]
    ELSE [timer |-> ~NetworkErrorStops(ex, r), net |-> PollRequests(r),
          emitted |-> PollEvents(ex, r)]

\* ---- connect

\* Client._request of Pacifica: create_signature comes first, and when it
\* raises ValueError (the secret is not base58 or not an Ed25519 seed)
\* _request returns {"error": ...} before any call of requests.
SignedRequestSentAnyway(secret, request) == <<request>>

SignedRequest(secret, request) ==
    IF secret = "good" THEN <<request>> ELSE <<>>

\* PacificaAPI.connect / LighterAPI.connect: the client it leaves, the
\* requests it sends and the events it emits.
ConnectResult(ex, c, resp) ==
    IF ex = "pacifica"
    THEN IF ~c.key \/ c.secret = "empty"
         THEN \* Client(): check_api_keys raises ValueError
              [client |-> None, net |-> <<>>,
               emitted |-> <<Log(ex, "INFO:connecting"),
                             Log(ex, "ERROR:connection_error")>>]
         ELSE IF c.secret = "malformed"
         THEN \* create_signature fails: _request answers {"error": ...}
              [client |-> None,
               net |-> SignedRequest(c.secret, Request("server_time")),
               emitted |-> <<Log(ex, "INFO:connecting"),
                             Log(ex, "ERROR:connection_failed")>>]
         ELSE IF resp = "ok"
         THEN [client |-> Connected, net |-> <<Request("server_time")>>,
               emitted |-> <<Log(ex, "INFO:connecting"),
                             Log(ex, "SUCCESS:connected")>>]
         ELSE [client |-> None, net |-> <<Request("server_time")>>,
               emitted |-> <<Log(ex, "INFO:connecting"),
                             Log(ex, "ERROR:connection_failed")>>]
    ELSE IF c.account_id # "set" \/ ~c.l1
         THEN \* not creds.accountId or not creds.l1Address: return False
              [client |-> client[ex], net |-> <<>>,
               emitted |-> <<Log(ex, "INFO:connecting"),
                             Log(ex, "ERROR:requires_account_id_and_l1")>>]
         ELSE IF ~c.key \/ c.secret = "empty"
         THEN \* _get_auth_headers raises ValueError
              [client |-> None, net |-> <<>>,
               emitted |-> <<Log(ex, "INFO:connecting"),
                             Log(ex, "ERROR:connection_error")>>]
         ELSE IF resp = "ok"
         THEN [client |-> Connected, net |-> <<Request("collateral")>>,
               emitted |-> <<Log(ex, "INFO:connecting"),
                             Log(ex, "SUCCESS:connected")>>]
         ELSE [client |-> None, net |-> <<Request("collateral")>>,
               emitted |-> <<Log(ex, "INFO:connecting"),
                             Log(ex, "ERROR:connection_error")>>]

connect(ex, c, resp) ==
    /\ LET res == ConnectResult(ex, c, resp) IN
         /\ client' = [client EXCEPT ![ex] = res.client]
         /\ net' = res.net
         /\ emitted' = res.emitted
    /\ last_op' = Op("connect", ex, NoOutcome)
    /\ UNCHANGED <<timer_active, ad_symbol, oob>>
    /\ UNCHANGED outside_adapter

\* ---- start_streaming / stop_streaming

StartRefusedNever(ex) == FALSE

\* start_streaming, line 1: if not self.client
StartRefused(ex) == client[ex] = None

\* start_streaming(symbol); r is what the exchange would answer to a poll.
start_streaming(ex, sym, r) ==
    /\ last_op' = Op("start_streaming", ex, r)
    /\ IF StartRefused(ex)
       THEN /\ emitted' = <<Log(ex, "ERROR:not_connected")>>
            /\ net' = <<>>
            /\ UNCHANGED <<timer_active, ad_symbol>>
       ELSE /\ ad_symbol' = [ad_symbol EXCEPT ![ex] = sym]
            /\ IF ~timer_active[ex]
               THEN \* self._poll_data(), then self.poll_timer.start()
                    LET p == PollData(ex, timer_active[ex], r) IN
                      /\ emitted' = <<Log(ex, "INFO:polling_started")>> \o p.emitted
                      /\ net' = p.net
               ELSE /\ emitted' = <<Log(ex, "INFO:polling_started")>>
                    /\ net' = <<>>
            /\ timer_active' = [timer_active EXCEPT ![ex] = TRUE]
    /\ UNCHANGED <<client, oob>>
    /\ UNCHANGED outside_adapter

TimerAfterStopForgotten(ex) == timer_active[ex]

\* stop_streaming: self.poll_timer.stop()
TimerAfterStop(ex) == FALSE

stop_streaming(ex) ==
    /\ last_op' = Op("stop_streaming", ex, NoOutcome)
    /\ emitted' = <<Log(ex, "INFO:polling_stopped")>>
    /\ net' = <<>>
    /\ timer_active' = [timer_active EXCEPT ![ex] = TimerAfterStop(ex)]
    /\ UNCHANGED <<client, ad_symbol, oob>>
    /\ UNCHANGED outside_adapter

\* ---- polls

\* poll_timer.timeout -> _poll_data
poll_timer_timeout(ex, r) ==
    /\ timer_active[ex]
    /\ last_op' = Op("poll_timer_timeout", ex, r)
    /\ LET p == PollData(ex, timer_active[ex], r) IN
         /\ timer_active' = [timer_active EXCEPT ![ex] = p.timer]
         /\ net' = p.net
         /\ emitted' = p.emitted
    /\ UNCHANGED <<client, ad_symbol, oob>>
    /\ UNCHANGED outside_adapter

\* QTimer.singleShot(500, self._poll_data) fires
single_shot_timeout(ex, r) ==
    /\ oob[ex] > 0
    /\ oob' = [oob EXCEPT ![ex] = @ - 1]
    /\ last_op' = Op("single_shot_timeout", ex, r)
    /\ LET p == PollData(ex, timer_active[ex], r) IN
         /\ timer_active' = [timer_active EXCEPT ![ex] = p.timer]
         /\ net' = p.net
         /\ emitted' = p.emitted
    /\ UNCHANGED <<client, ad_symbol>>
    /\ UNCHANGED outside_adapter

\* ---- orders

AttemptsWithRetry(request, resp) ==
    IF resp = "ok" THEN <<request>> ELSE <<request, request>>

\* The requests of one submission: the client method is called once, inside
\* a try whose handler only logs.
Attempts(request, resp) == <<request>>

ScheduledAfterAlways(ex, ok) == oob[ex] + 1

\* QTimer.singleShot(500, self._poll_data) is the last statement of the try
\* block: pending out-of-band polls after a submission that succeeded or not.
ScheduledAfter(ex, ok) == IF ok THEN oob[ex] + 1 ELSE oob[ex]

\* The common shape of set_leverage, create_order, cancel_order and
\* cancel_all_orders: nothing at all without a client; else the first log,
\* then inside try one request (none when its argument cannot be built),
\* the success log and one singleShot poll; the handler logs the failure.
Submission(ex, request, tags, sendable, resp) ==
    IF client[ex] = None
    THEN net' = <<>> /\ emitted' = <<>> /\ oob' = oob
    ELSE LET ok == sendable /\ resp = "ok" IN
           /\ net' = IF sendable THEN Attempts(request, resp) ELSE <<>>
           /\ emitted' = <<Log(ex, tags[1]),
                           Log(ex, IF ok THEN tags[2] ELSE tags[3])>>
           /\ oob' = [oob EXCEPT ![ex] = ScheduledAfter(ex, ok)]

set_leverage(ex, resp) ==
    /\ oob[ex] < MaxOob
    /\ last_op' = Op("set_leverage", ex, NoOutcome)
    /\ Submission(ex, Request("update_collateral"),
                  <<"INFO:setting_leverage", "SUCCESS:leverage_set",
                    "ERROR:set_leverage_failed">>, TRUE, resp)
    /\ UNCHANGED <<client, timer_active, ad_symbol>>
    /\ UNCHANGED outside_adapter

\* create_order: one post_order request, which carries the price whenever a
\* (nonzero) price was passed, whatever the order type.
create_order(ex, order_type, priced, resp) ==
    /\ oob[ex] < MaxOob
    /\ last_op' = Op("create_order", ex, NoOutcome)
    /\ Submission(ex, [req |-> "post_order", order_type |-> order_type,
                       priced |-> priced],
                  <<"INFO:create_order", "SUCCESS:order_submitted",
                    "ERROR:order_creation_failed">>, TRUE, resp)
    /\ UNCHANGED <<client, timer_active, ad_symbol>>
    /\ UNCHANGED outside_adapter

\* cancel_order: int(order_id) is evaluated inside the try, before the
\* request; an order id that is no number fails without a request.
cancel_order(ex, valid_id, resp) ==
    /\ oob[ex] < MaxOob
    /\ last_op' = Op("cancel_order", ex, NoOutcome)
    /\ Submission(ex, Request("delete_order"),
                  <<"INFO:cancelling_order", "SUCCESS:order_cancelled",
                    "ERROR:cancel_order_failed">>, valid_id, resp)
    /\ UNCHANGED <<client, timer_active, ad_symbol>>
    /\ UNCHANGED outside_adapter

cancel_all_orders(ex, resp) ==
    /\ oob[ex] < MaxOob
    /\ last_op' = Op("cancel_all_orders", ex, NoOutcome)
    /\ Submission(ex, Request("delete_orders"),
                  <<"WARN:cancelling_all_orders", "SUCCESS:all_orders_cancelled",
                    "ERROR:cancel_all_orders_failed">>, TRUE, resp)
    /\ UNCHANGED <<client, timer_active, ad_symbol>>
    /\ UNCHANGED outside_adapter

NextAdapter ==
    \/ \E ex \in ExchangeIds, c \in Credentials, resp \in Responses :
          connect(ex, c, resp)
    \/ \E ex \in ExchangeIds, sym \in Symbols, r \in StartOutcomes :
          start_streaming(ex, sym, r)
    \/ \E ex \in ExchangeIds : stop_streaming(ex)
    \/ \E ex \in ExchangeIds, r \in PollOutcomes : poll_timer_timeout(ex, r)
    \/ \E ex \in ExchangeIds, r \in PollOutcomes : single_shot_timeout(ex, r)
    \/ \E ex \in ExchangeIds, ot \in {MKT, LMT}, priced \in BOOLEAN,
          resp \in Responses : create_order(ex, ot, priced, resp)
    \/ \E ex \in ExchangeIds, resp \in Responses : set_leverage(ex, resp)
    \/ \E ex \in ExchangeIds, valid_id \in BOOLEAN, resp \in Responses :
          cancel_order(ex, valid_id, resp)
    \/ \E ex \in ExchangeIds, resp \in Responses : cancel_all_orders(ex, resp)

\* ================================================== request signing
\* Pacifica's create_signature and Lighter's Client._get_auth_headers build
\* the message they sign by string concatenation. A string is modelled as the
\* sequence of its parts, each part a record, so that concatenation is \o.

Part(enc, k, v) == [enc |-> enc, k |-> k, v |-> v]

Methods == {"GET", "POST", "DELETE"}

Endpoints == {"/orders", "/collateral"}

\* str(int(time.time() * 1000)) at two instants
Timestamps == {"1700000000000", "1700000000001"}

Secrets == {"secret1", "secret2"}

\* the params dicts of the requests, as the (key, value) items in insertion
\* order: none, and the market and account of a private request
ParamDicts ==
    {<<>>,
     <<[k |-> "market", v |-> "BTC-PERP"], [k |-> "account", v |-> "1"]>>,
     <<[k |-> "market", v |-> "ETH-PERP"], [k |-> "account", v |-> "1"]>>}

\* sorted(params.items()): the order of the keys of ParamDicts
KeyRank(k) == IF k = "account" THEN 1 ELSE 2

RECURSIVE Insert(_, _)
Insert(item, sorted) ==
    IF sorted = <<>> THEN <<item>>
    ELSE IF KeyRank(item.k) <= KeyRank(Head(sorted).k)
         THEN <<item>> \o sorted
         ELSE <<Head(sorted)>> \o Insert(item, Tail(sorted))

RECURSIVE Sorted(_)
Sorted(items) ==
    IF items = <<>> THEN <<>> ELSE Insert(Head(items), Sorted(Tail(items)))

\* "&".join(f"{key}={value}" for key, value in ...)
RECURSIVE Join(_)
Join(items) ==
    IF items = <<>> THEN <<>>
    ELSE IF Len(items) = 1 THEN <<Part("query", Head(items).k, Head(items).v)>>
    ELSE <<Part("query", Head(items).k, Head(items).v), Part("sep", "&", "&")>>
         \o Join(Tail(items))

\* json.dumps(params): the items in insertion order
Json(items) == [i \in 1 .. Len(items) |-> Part("json", items[i].k, items[i].v)]

\* create_signature (Pacifica): timestamp + method + request_str
\* + query_string + body_string
PacificaMessage(method, request_str, params, timestamp) ==
    LET query_string == IF method \in {"GET", "DELETE"} /\ params # <<>>
                        THEN Join(Sorted(params)) ELSE <<>>
        body_string == IF method \in {"POST", "PUT"} /\ params # <<>>
                       THEN Json(params) ELSE <<>>
    IN <<Part("raw", "timestamp", timestamp), Part("raw", "method", method),
         Part("raw", "path", request_str)>> \o query_string \o body_string

\* what Lighter's Client passes to _get_auth_headers as data: _post and
\* _delete pass the params they send, the GET endpoints pass nothing and put
\* their params in the URL
LighterSignedData(method, params) ==
    IF method = "GET" THEN <<>> ELSE params

\* Client._get_auth_headers (Lighter): f"{timestamp}{METHOD}{endpoint}{body}"
LighterMessage(method, endpoint, params, timestamp) ==
    LET data == LighterSignedData(method, params)
        body == IF data # <<>> THEN Json(data) ELSE <<>>
    IN <<Part("raw", "timestamp", timestamp), Part("raw", "method", method),
         Part("raw", "path", endpoint)>> \o body

SignedMessage(ex, method, path, params, timestamp) ==
    IF ex = "pacifica" THEN PacificaMessage(method, path, params, timestamp)
    ELSE LighterMessage(method, path, params, timestamp)

\* Ed25519 and HMAC-SHA256, taken as ideal: the signature names its key and
\* its message
Signature(secret, message) == [key |-> secret, message |-> message]

SignedRequestOf(ex, secret, method, path, params, timestamp) ==
    [ex |-> ex, secret |-> secret, method |-> method, path |-> path,
     params |-> params, timestamp |-> timestamp,
     message |-> SignedMessage(ex, method, path, params, timestamp),
     signature |-> Signature(secret,
                             SignedMessage(ex, method, path, params,
                                           timestamp))]

NoSigned == SignedRequestOf(None, "secret1", "GET", "/orders", <<>>,
                            "1700000000000")

InitSigner == signed = NoSigned /\ signed_before = NoSigned

\* one request is signed; the one signed before is kept for comparison
sign(ex, secret, method, path, params, timestamp) ==
    /\ signed' = SignedRequestOf(ex, secret, method, path, params, timestamp)
    /\ signed_before' = signed
    /\ UNCHANGED <<engine_vars, adapter_vars, store_vars>>

NextSigner ==
    \E ex \in ExchangeIds, secret \in Secrets, method \in Methods,
       path \in Endpoints, params \in ParamDicts, timestamp \in Timestamps :
       sign(ex, secret, method, path, params, timestamp)

\* ================================================================ main.py
\* MainWindow: the store of what the adapters report, the strategy selection
\* and the manual order handlers. The adapters' signals are connected to the
\* slots below (handle_api_auth), so each slot runs once per emitted event.

\* self.prices.get(ex_id) of an exchange without a price
NoPrice == 0 - 1

\* prices and order ids are opaque to MainWindow: two of each
Prices == {1, 2}

OrderIds == {1, 2}

\* core/types Order, reduced to the fields the store looks at.
Orders == [id : OrderIds, exchangeId : ExchangeIds]

\* the orders list one poll of adapter ex emits: every order carries ex_id
OrderLists(ex) ==
    {<<>>} \cup {<<o>> : o \in {p \in Orders : p.exchangeId = ex}}

Quantities == 0 .. MaxQty

MainOp(name, ex) == [op |-> name, ex |-> ex]

InitStore ==
    /\ selected_A = None /\ selected_B = None
    /\ exchange_states = [ex \in ExchangeIds |-> Absent]
    /\ open_orders = <<>>
    /\ prices = [ex \in ExchangeIds |-> NoPrice]
    /\ order_symbol = "BTC"
    /\ api_clients = {}
    /\ authenticated_exchanges = {}
    /\ worker = FALSE
    /\ m_op = MainOp("none", None)
    /\ m_log = <<>> /\ m_calls = <<>> /\ m_pushed = <<>>

Init == InitWorker /\ InitAdapters /\ InitStore /\ InitSigner

\* the variables of the worker's thread, which no MainWindow handler writes
thread_vars ==
    <<interval, pos_a, pos_b, slept_time, esleep, us_pending, out_eval,
      out_calls, elog, since_order, stop_requested, since_stop, a_mate>>

\* the attributes of the worker that MainWindow handlers write
WorkerFrame ==
    UNCHANGED <<api_a, api_b, symbol, is_running, state_a, state_b, epc>>

StoreFrame == UNCHANGED <<adapter_vars, thread_vars, signer_vars>>

\* self.exchange_states.get(sel) if sel else None
StateOf(states, sel) == IF sel = None THEN Absent ELSE states[sel]

\* [o for o in self.open_orders if o.exchangeId != ex_id]
OtherOrdersAll(orders, ex) == orders

OtherOrders(orders, ex) ==
    LET keep(o) == o.exchangeId # ex IN SelectSeq(orders, keep)

\* self.exchange_states[ex_id] = state
StoredStateFirst(old, state) == IF old = Absent THEN state ELSE old

StoredState(old, state) == state

\* on_state_update: the state of ex_id is replaced and the pair of the selected
\* exchanges is emitted on signal_state_updated_for_worker, whose only slot is
\* update_states of the current worker (a direct call: the QThread object
\* lives in the main thread).
on_state_update(ex, state) ==
    /\ StoreFrame
    /\ exchange_states' =
           [exchange_states EXCEPT ![ex] = StoredState(exchange_states[ex], state)]
    /\ m_pushed' = <<StateOf(exchange_states', selected_A),
                     StateOf(exchange_states', selected_B)>>
    /\ IF worker
       THEN state_a' = m_pushed'[1] /\ state_b' = m_pushed'[2]
       ELSE UNCHANGED <<state_a, state_b>>
    /\ m_op' = MainOp("on_state_update", ex)
    /\ m_log' = <<>> /\ m_calls' = <<>>
    /\ UNCHANGED <<api_a, api_b, symbol, is_running, epc>>
    /\ UNCHANGED <<selected_A, selected_B, open_orders, prices, order_symbol,
                   api_clients, authenticated_exchanges, worker>>

\* on_orders_update: other_orders + orders
on_orders_update(ex, orders) ==
    /\ StoreFrame /\ WorkerFrame
    /\ open_orders' = OtherOrders(open_orders, ex) \o orders
    /\ m_op' = MainOp("on_orders_update", ex)
    /\ m_log' = <<>> /\ m_calls' = <<>> /\ m_pushed' = <<>>
    /\ UNCHANGED <<selected_A, selected_B, exchange_states, prices,
                   order_symbol, api_clients, authenticated_exchanges, worker>>

\* on_price_update: self.prices[ex_id] = price (the rest sets labels)
on_price_update(ex, price) ==
    /\ StoreFrame /\ WorkerFrame
    /\ prices' = [prices EXCEPT ![ex] = price]
    /\ m_op' = MainOp("on_price_update", ex)
    /\ m_log' = <<>> /\ m_calls' = <<>> /\ m_pushed' = <<>>
    /\ UNCHANGED <<selected_A, selected_B, exchange_states, open_orders,
                   order_symbol, api_clients, authenticated_exchanges, worker>>

\* a call of a MainWindow handler on an adapter
AdapterCall(ex, name, arg) == [ex |-> ex, op |-> name, arg |-> arg]

NoArg == [order_type |-> NONE, direction |-> NONE, quantity |-> 0,
          priced |-> FALSE]

\* on_symbol_changed, the loop over self.api_clients: stop_streaming then
\* start_streaming on each adapter. start_streaming polls nothing before it
\* returns (its _poll_data call finds the timer inactive), so no slot of the
\* store runs inside the loop. The model lists the adapters in a fixed order,
\* the dict's insertion order not being kept.
RECURSIVE RestartCalls(_)
RestartCalls(clients) ==
    IF clients = {} THEN <<>>
    ELSE LET ex == IF "pacifica" \in clients THEN "pacifica"
                   ELSE CHOOSE e \in clients : TRUE
         IN <<AdapterCall(ex, "stop_streaming", NoArg),
              AdapterCall(ex, "start_streaming", NoArg)>>
            \o RestartCalls(clients \ {ex})

\* on_symbol_changed: nothing on the current symbol; otherwise the adapters
\* restart on the new symbol and the stored orders and states are dropped.
\* Neither the worker's symbol nor its states are written. This is what the
\* handler does to MainWindow.
OnSymbolChanged(sym) ==
    /\ m_op' = MainOp("on_symbol_changed", None)
    /\ m_pushed' = <<>>
    /\ IF sym = order_symbol
       THEN /\ m_log' = <<>> /\ m_calls' = <<>>
            /\ UNCHANGED <<order_symbol, open_orders, exchange_states>>
       ELSE /\ order_symbol' = sym
            /\ m_log' = <<"INFO">>
            /\ m_calls' = RestartCalls(api_clients)
            /\ open_orders' = <<>>
            /\ exchange_states' = [ex \in ExchangeIds |-> Absent]
    /\ UNCHANGED <<selected_A, selected_B, prices, api_clients,
                   authenticated_exchanges, worker>>

\* on_symbol_changed seen from MainWindow alone
on_symbol_changed(sym) ==
    /\ StoreFrame /\ WorkerFrame
    /\ OnSymbolChanged(sym)

NextStore ==
    \/ \E ex \in ExchangeIds, state \in ExchangeStates :
          on_state_update(ex, state)
    \/ \E ex \in ExchangeIds : \E orders \in OrderLists(ex) :
          on_orders_update(ex, orders)
    \/ \E ex \in ExchangeIds, price \in Prices : on_price_update(ex, price)
    \/ \E sym \in Symbols : on_symbol_changed(sym)

\* handle_api_auth: the adapter of ex_id is created once and kept; connect
\* (which returns a bool and raises nothing, so the except branch never
\* runs) decides whether the exchange joins authenticated_exchanges and its
\* streaming starts. ok is what connect returned. This is what the handler
\* does to MainWindow.
HandleApiAuth(ex, ok) ==
    /\ api_clients' = api_clients \cup {ex}
    /\ m_op' = MainOp("handle_api_auth", ex)
    /\ m_pushed' = <<>>
    /\ IF ok
       THEN /\ authenticated_exchanges' = authenticated_exchanges \cup {ex}
            /\ m_log' = <<"INFO", "SUCCESS">>
            /\ m_calls' = <<AdapterCall(ex, "connect", NoArg),
                            AdapterCall(ex, "start_streaming", NoArg)>>
       ELSE /\ UNCHANGED authenticated_exchanges
            /\ m_log' = <<"INFO", "ERROR">>
            /\ m_calls' = <<AdapterCall(ex, "connect", NoArg)>>
    /\ UNCHANGED <<selected_A, selected_B, exchange_states, open_orders,
                   prices, order_symbol, worker>>

\* handle_api_auth seen from MainWindow alone: the adapter is left aside and
\* connect answers either way.
handle_api_auth(ex, ok) ==
    /\ StoreFrame /\ WorkerFrame
    /\ HandleApiAuth(ex, ok)

\* connect returns True exactly where it logs the success
ConnectReturns(ex, c, resp) ==
    LET e == ConnectResult(ex, c, resp).emitted
    IN e[Len(e)] = Log(ex, "SUCCESS:connected")

\* handle_api_auth with the adapter it drives: connect(creds) on the adapter
\* and, when it returned True, start_streaming(self.order_symbol), whose
\* _poll_data call returns at its guard when the timer is not yet active.
handle_api_auth_connect(ex, c, resp) ==
    LET res == ConnectResult(ex, c, resp)
        ok == ConnectReturns(ex, c, resp)
    IN /\ HandleApiAuth(ex, ok)
       /\ client' = [client EXCEPT ![ex] = res.client]
       /\ last_op' = Op("connect", ex, NoOutcome)
       /\ IF ok
          THEN /\ ad_symbol' = [ad_symbol EXCEPT ![ex] = order_symbol]
               /\ timer_active' = [timer_active EXCEPT ![ex] = TRUE]
               /\ net' = res.net
               /\ emitted' =
                      res.emitted \o <<Log(ex, "INFO:polling_started")>>
                      \o (IF timer_active[ex] THEN <<>>
                          ELSE <<Log(ex, "INFO:polling_stopped")>>)
          ELSE /\ net' = res.net /\ emitted' = res.emitted
               /\ UNCHANGED <<ad_symbol, timer_active>>
       /\ UNCHANGED oob
       /\ UNCHANGED <<engine_vars, signer_vars>>

\* the events of stop_streaming() followed by start_streaming(symbol) on
\* every adapter of api_clients, pacifica first
RECURSIVE RestartEvents(_)
RestartEvents(clients) ==
    IF clients = {} THEN <<>>
    ELSE LET ex == IF "pacifica" \in clients THEN "pacifica"
                   ELSE CHOOSE e \in clients : TRUE
         IN <<Log(ex, "INFO:polling_stopped")>>
            \o (IF client[ex] = None THEN <<Log(ex, "ERROR:not_connected")>>
                ELSE <<Log(ex, "INFO:polling_started"),
                       Log(ex, "INFO:polling_stopped")>>)
            \o RestartEvents(clients \ {ex})

\* on_symbol_changed with the adapters it drives: each adapter of api_clients
\* is stopped and started on the new symbol; start_streaming refuses an
\* adapter without a client, which stays stopped on its old symbol.
on_symbol_changed_restart(sym) ==
    /\ OnSymbolChanged(sym)
    /\ last_op' = [op |-> "on_symbol_changed", ex |-> None,
                   was_connected |-> FALSE, was_active |-> FALSE,
                   r |-> NoOutcome]
    /\ net' = <<>>
    /\ IF sym = order_symbol
       THEN emitted' = <<>> /\ UNCHANGED <<timer_active, ad_symbol>>
       ELSE /\ emitted' = RestartEvents(api_clients)
            /\ timer_active' =
                   [ex \in ExchangeIds |->
                       IF ex \in api_clients THEN client[ex] # None
                       ELSE timer_active[ex]]
            /\ ad_symbol' =
                   [ex \in ExchangeIds |->
                       IF ex \in api_clients /\ client[ex] # None THEN sym
                       ELSE ad_symbol[ex]]
    /\ UNCHANGED <<client, oob>>
    /\ UNCHANGED <<engine_vars, signer_vars>>

\* authentication: every call of handle_api_auth, and the symbol changes,
\* with the adapters
NextAuth ==
    \/ \E ex \in ExchangeIds, c \in Credentials, resp \in Responses :
          handle_api_auth_connect(ex, c, resp)
    \/ \E sym \in Symbols : on_symbol_changed_restart(sym)

\* update_strategy_selector_ui: what a strategy combo box offers besides
\* "-- 선택 --" (None): the authenticated exchanges but the one the other box
\* shows.
Offered(other) == (authenticated_exchanges \ {other}) \cup {None}

\* update_autobalance_worker, given the selection it finds
\* (auto_balance_enabled keeps its value True). With both sides selected the
\* worker is created if there is none, configured and started; otherwise a
\* worker is stopped and dropped, and the attributes are those of the next
\* AutoBalanceWorker(). wlog is what it logs.
update_autobalance_worker_keeps(sel_a, sel_b, wlog) ==
    IF sel_a # None /\ sel_b # None
    THEN IF ~({sel_a, sel_b} \subseteq api_clients)
         THEN wlog = <<"WARN">> /\ WorkerFrame /\ UNCHANGED worker
         ELSE /\ wlog = <<>>
              /\ worker' = TRUE
              /\ api_a' = sel_a /\ api_b' = sel_b /\ symbol' = order_symbol
              /\ IF worker
                 THEN UNCHANGED <<state_a, state_b, epc, is_running>>
                 ELSE /\ state_a' = Absent /\ state_b' = Absent
                      /\ epc' = "run_enter" /\ is_running' = FALSE
    ELSE wlog = <<>> /\ WorkerFrame /\ UNCHANGED worker

update_autobalance_worker(sel_a, sel_b, wlog) ==
    IF sel_a # None /\ sel_b # None
    THEN IF ~({sel_a, sel_b} \subseteq api_clients)
         THEN wlog = <<"WARN">> /\ WorkerFrame /\ UNCHANGED worker
         ELSE /\ wlog = <<>>
              /\ worker' = TRUE
              /\ api_a' = sel_a /\ api_b' = sel_b /\ symbol' = order_symbol
              /\ IF worker
                 THEN UNCHANGED <<state_a, state_b, epc, is_running>>
                 ELSE /\ state_a' = Absent /\ state_b' = Absent
                      /\ epc' = "run_enter" /\ is_running' = FALSE
    ELSE /\ wlog = <<>>
         /\ worker' = FALSE
         /\ IF worker
            THEN /\ api_a' = None /\ api_b' = None /\ symbol' = "BTC"
                 /\ state_a' = Absent /\ state_b' = Absent
                 /\ epc' = "notstarted" /\ is_running' = FALSE
            ELSE WorkerFrame

\* on_strategy_exchange_changed of combo box A (side = "A") or B: the user
\* picks another of the offered entries. Picking the exchange of the other
\* side clears this side: setCurrentIndex(0) emits currentTextChanged, whose
\* slot is this handler again, now with None, which stores the selection and
\* updates the worker before the outer call returns. Otherwise the selection
\* is stored and the worker updated. No pair is pushed to the worker.
on_strategy_exchange_changed(side, sel) ==
    LET mine == IF side = "A" THEN selected_A ELSE selected_B
        other == IF side = "A" THEN selected_B ELSE selected_A
        new == IF sel = other /\ sel # None THEN None ELSE sel
        new_a == IF side = "A" THEN new ELSE selected_A
        new_b == IF side = "B" THEN new ELSE selected_B
    IN /\ StoreFrame
       /\ sel \in Offered(other) /\ sel # mine
       /\ selected_A' = new_a /\ selected_B' = new_b
       /\ m_op' = MainOp("on_strategy_exchange_changed", sel)
       /\ m_calls' = <<>> /\ m_pushed' = <<>>
       /\ \E wlog \in {<<>>, <<"WARN">>} :
             /\ update_autobalance_worker(new_a, new_b, wlog)
             /\ m_log' = (IF sel = other /\ sel # None
                          THEN <<"WARN", "INFO">> ELSE <<"INFO">>) \o wlog
       /\ UNCHANGED <<exchange_states, open_orders, prices, order_symbol,
                      api_clients, authenticated_exchanges>>

\* the order handlers' test of the quantity read from the spin box
QuantityRejectedBelowZero(quantity) == quantity < 0

QuantityRejected(quantity) == quantity <= 0

OrderArg(order_type, direction, quantity) ==
    [order_type |-> order_type, direction |-> direction,
     quantity |-> quantity, priced |-> order_type = LMT]

\* what an order handler does: log entries and adapter calls
Handled(log, calls) ==
    /\ StoreFrame /\ WorkerFrame
    /\ m_log' = log /\ m_calls' = calls /\ m_pushed' = <<>>
    /\ UNCHANGED <<selected_A, selected_B, exchange_states, open_orders,
                   prices, order_symbol, api_clients,
                   authenticated_exchanges, worker>>

\* on_execute_strategy_order: quantity is the value of the quantity box and
\* direction the checked direction button (NONE: neither). The limit order
\* goes to the adapter of A at price_a -/+ offset. create_order raises
\* nothing, so the except branch never runs.
on_execute_strategy_order(quantity, direction) ==
    /\ m_op' = MainOp("on_execute_strategy_order", selected_A)
    /\ IF selected_A = None \/ selected_B = None
       THEN Handled(<<"WARN">>, <<>>)
       ELSE IF selected_A \notin api_clients \/ prices[selected_A] = NoPrice
       THEN Handled(<<"ERROR">>, <<>>)
       ELSE IF QuantityRejected(quantity)
       THEN Handled(<<"WARN">>, <<>>)
       ELSE IF direction = NONE
       THEN Handled(<<"WARN">>, <<>>)
       ELSE Handled(<<"INFO">>,
                    <<AdapterCall(selected_A, "create_order",
                                  OrderArg(LMT, direction, quantity))>>)

\* _execute_individual_order(self.selected_A) or (self.selected_B), with the
\* checked order type and direction buttons and the value of the quantity
\* box. A limit order needs a stored price.
execute_individual_order(side, order_type, direction, quantity) ==
    LET ex_id == IF side = "A" THEN selected_A ELSE selected_B
    IN /\ m_op' = MainOp("_execute_individual_order", ex_id)
       /\ IF ex_id = None
          THEN Handled(<<"WARN">>, <<>>)
          ELSE IF ex_id \notin api_clients
          THEN Handled(<<"ERROR">>, <<>>)
          ELSE IF QuantityRejected(quantity)
          THEN Handled(<<"WARN">>, <<>>)
          ELSE IF order_type = LMT /\ prices[ex_id] = NoPrice
          THEN Handled(<<"ERROR">>, <<>>)
          ELSE Handled(<<"INFO">>,
                       <<AdapterCall(ex_id, "create_order",
                                     OrderArg(order_type, direction,
                                              quantity))>>)

\* selection and pairing: authentication, the strategy selection, state
\* updates and symbol changes
NextSelection ==
    \/ \E ex \in ExchangeIds, ok \in BOOLEAN : handle_api_auth(ex, ok)
    \/ \E side \in {"A", "B"}, sel \in ExchangeIds \cup {None} :
          on_strategy_exchange_changed(side, sel)
    \/ \E ex \in ExchangeIds, state \in ExchangeStates :
          on_state_update(ex, state)
    \/ \E sym \in Symbols : on_symbol_changed(sym)

\* manual orders: authentication, the strategy selection, price updates and
\* the order buttons
NextOrders ==
    \/ \E ex \in ExchangeIds, ok \in BOOLEAN : handle_api_auth(ex, ok)
    \/ \E side \in {"A", "B"}, sel \in ExchangeIds \cup {None} :
          on_strategy_exchange_changed(side, sel)
    \/ \E ex \in ExchangeIds, price \in Prices : on_price_update(ex, price)
    \/ \E quantity \in Quantities, direction \in {LONG, SHORT, NONE} :
          on_execute_strategy_order(quantity, direction)
    \/ \E side \in {"A", "B"}, order_type \in {MKT, LMT},
          direction \in {LONG, SHORT}, quantity \in Quantities :
          execute_individual_order(side, order_type, direction, quantity)

\* ================================= a symbol change under a started worker
\* MainWindow's handlers that lead to a worker and feed it, the symbol
\* change, and the worker's thread from run() to the end of its first
\* check_balance. The thread runs beside the handlers of the main thread; no
\* time passes here, so a thread that went to sleep stays asleep.

\* the thread's steps up to the corrective order of its first tick
FirstPass ==
    \/ run_enter
    \/ run_while
    \/ run_check_apis
    \/ run_check_state_a
    \/ run_check_state_b
    \/ check_balance_guard_a
    \/ check_balance_guard_b
    \/ check_balance_read_a
    \/ check_balance_read_b
    \/ check_balance_correct

\* an account state the adapters deliver: a position of the largest size
OpenStates == {s \in ExchangeStates : s.position.quantity = MaxQty}

NextSymbol ==
    \/ \E ex \in ExchangeIds : handle_api_auth(ex, TRUE)
    \/ \E side \in {"A", "B"}, sel \in ExchangeIds :
          on_strategy_exchange_changed(side, sel)
    \/ \E ex \in ExchangeIds, state \in OpenStates : on_state_update(ex, state)
    \/ \E sym \in Symbols : on_symbol_changed(sym)
    \/ FirstPass

\* ===================================== a stopped worker and its successor
\* The auto-balance switch under a pair that stays selected. Switching off
\* calls stop() on the worker, disconnects its update_states slot and drops
\* the reference (autobalance_worker = None); the thread goes on until run()
\* returns. Switching on again creates and starts another AutoBalanceWorker.
\* The worker's variables follow the first worker of the session, to the end
\* of its thread; of its successors only the existence is kept (worker).

\* on_autobalance_toggled(checked), once a worker has been created:
\* auto_balance_enabled = checked, then update_autobalance_worker.
on_autobalance_toggled(checked) ==
    /\ UNCHANGED <<adapter_vars, signer_vars>>
    /\ worker # checked
    /\ worker \/ stop_requested
    /\ worker' = checked
    /\ IF ~checked /\ ~stop_requested
       THEN /\ is_running' = FALSE
            /\ stop_requested' = TRUE /\ since_stop' = 0
            /\ out_eval' = Absent /\ out_calls' = <<>>
            /\ elog' = <<"INFO:worker_stopping">>
       ELSE UNCHANGED <<is_running, stop_requested, since_stop, out_eval,
                        out_calls, elog>>
    /\ m_op' = MainOp("on_autobalance_toggled", None)
    /\ m_log' = <<>> /\ m_calls' = <<>> /\ m_pushed' = <<>>
    /\ UNCHANGED <<api_a, api_b, interval, symbol, state_a, state_b, epc,
                   pos_a, pos_b, slept_time, esleep, us_pending, since_order,
                   a_mate>>
    /\ UNCHANGED <<selected_A, selected_B, exchange_states, open_orders,
                   prices, order_symbol, api_clients, authenticated_exchanges>>

\* States are delivered while the first worker's slot is connected.
NextSuccessor ==
    \/ \E ex \in ExchangeIds : handle_api_auth(ex, TRUE)
    \/ \E side \in {"A", "B"}, sel \in ExchangeIds :
          on_strategy_exchange_changed(side, sel)
    \/ \E ex \in ExchangeIds, state \in OpenStates :
          ~stop_requested /\ on_state_update(ex, state)
    \/ \E checked \in BOOLEAN : on_autobalance_toggled(checked)
    \/ FirstPass

\* =============================================== the worker and its follower
\* check_balance calls self.api_b.create_order on the worker's thread: the
\* adapter's create_order runs inside the engine's step.

\* check_balance from line 70 on, with the adapter it calls: create_order of
\* the follower's adapter (MKT, no price) runs between the engine's two log
\* entries and returns None whatever became of the order; resp is what the
\* exchange answers to the request, if one is sent.
check_balance_submit(resp) ==
    /\ CheckBalanceCorrect
    /\ UNCHANGED <<store_vars, signer_vars>>
    /\ IF CorrectionNeeded(Discrepancy(pos_a, pos_b))
       THEN /\ oob[api_b] < MaxOob
            /\ last_op' = Op("create_order", api_b, NoOutcome)
            /\ Submission(api_b, [req |-> "post_order", order_type |-> MKT,
                                  priced |-> FALSE],
                          <<"INFO:create_order", "SUCCESS:order_submitted",
                            "ERROR:order_creation_failed">>, TRUE, resp)
            /\ UNCHANGED <<client, timer_active, ad_symbol>>
       ELSE resp = "ok" /\ UNCHANGED adapter_vars

\* credentials with every field usable
CompleteCredentials == {c \in Credentials : Defects(c) = 0}

\* The worker of one pair on BTC with an interval of 0.1 s, pushes in which
\* both exchanges report the same position, the adapters connecting or failing
\* to with complete credentials, and the out-of-band polls that the submitted
\* orders schedule (no adapter is streaming: they return at their guard).
NextFollower ==
    \/ set_config("pacifica", "lighter", 1, "BTC")
    \/ start
    \/ \E s \in ExchangeStates : update_states_a(s, s)
    \/ update_states_b
    \/ EngineControl
    \/ \E resp \in Responses : check_balance_submit(resp)
    \/ Tick
    \/ \E ex \in ExchangeIds, c \in CompleteCredentials, resp \in Responses :
          connect(ex, c, resp)
    \/ \E ex \in ExchangeIds : single_shot_timeout(ex, NoOutcome)

\* ========================================================= specifications

SpecEngine == Init /\ [][NextEngine]_vars

\* The worker from its start on, with an interval of 0.1 s and pushes of
\* known states, and with its scheduling: the QThread is an operating system
\* thread and keeps being scheduled, the main thread finishes an update_states
\* call it has begun, and time keeps passing however often the main thread
\* runs.
LiveMainStep ==
    \/ \E a \in ExchangeIds, b \in ExchangeIds, sym \in Symbols :
          set_config(a, b, 1, sym)
    \/ start
    \/ \E sa \in ExchangeStates, sb \in ExchangeStates : update_states_a(sa, sb)
    \/ update_states_b

NextEngineLive == LiveMainStep \/ EngineStep \/ Tick

SpecEngineFair ==
    /\ Init /\ [][NextEngineLive]_vars
    /\ WF_vars(EngineStep)
    /\ WF_vars(update_states_b)
    /\ SF_vars(Tick)

\* The worker while the polls fail to deliver: states are pushed until the
\* first corrective order and none after it (B's poll is delayed or fails, or
\* its streaming has stopped). An update_states call begun before the order
\* still completes.
NextEngineStale ==
    \/ \E a \in ExchangeIds, b \in ExchangeIds, sym \in Symbols :
          set_config(a, b, 1, sym)
    \/ start
    \/ \E sa \in ExchangeStates, sb \in ExchangeStates :
          since_order = Never /\ update_states_a(sa, sb)
    \/ update_states_b
    \/ EngineStep
    \/ Tick

SpecEngineStale == Init /\ [][NextEngineStale]_vars

\* The same worker and scheduling, with the stop() call of
\* update_autobalance_worker, which may come at any moment after start().
NextEngineStop == NextEngineLive \/ stop

SpecEngineStopFair ==
    /\ Init /\ [][NextEngineStop]_vars
    /\ WF_vars(EngineStep)
    /\ WF_vars(update_states_b)
    /\ SF_vars(Tick)

SpecAdapter == Init /\ [][NextAdapter]_vars

SpecStore == Init /\ [][NextStore]_vars

SpecSelection == Init /\ [][NextSelection]_vars

SpecOrders == Init /\ [][NextOrders]_vars

SpecSigner == Init /\ [][NextSigner]_vars

SpecFollower == Init /\ [][NextFollower]_vars

SpecAuth == Init /\ [][NextAuth]_vars

SpecSymbol == Init /\ [][NextSymbol]_vars

SpecSuccessor == Init /\ [][NextSuccessor]_vars

\* ------------------------------------------------------ engine: claims

\* The specification's signed quantity: +quantity for LONG, -quantity for
\* SHORT, 0 for NONE.
ClaimSigned(pos) ==
    CASE pos.direction = LONG -> pos.quantity
      [] pos.direction = SHORT -> 0 - pos.quantity
      [] OTHER -> 0

\* The discrepancy of the pair the engine evaluated in the last step.
ClaimDisc == ClaimSigned(out_eval.a) + ClaimSigned(out_eval.b)

\* C1: whenever check_balance evaluates a pair of states whose discrepancy
\* signedA + signedB is within the tolerance (abs <= 1e-6), that tick calls
\* create_order on no adapter.
C1_NoOrderWithinEpsilon ==
    (out_eval # Absent /\ Abs(ClaimDisc) <= Epsilon) => out_calls = <<>>

\* C1 witness: a nonzero discrepancy exactly at the tolerance was evaluated
\* and no call was made.
C1_Witness ==
    /\ out_eval # Absent
    /\ Abs(ClaimDisc) = Epsilon
    /\ out_calls = <<>>

C3_NoEvaluationDuringCooldown ==
    (epc \in {"guard_a", "guard_b", "read_a", "read_b", "correct"}
     /\ since_order # Never)
        => since_order >= CooldownSeconds * TicksPerSecond

\* C3 witness: the engine is about to evaluate again, a full cooldown after
\* an order.
C3_Witness ==
    /\ epc = "correct"
    /\ since_order = CooldownSeconds * TicksPerSecond

\* C4: when the loop's check finds the state of A or of B absent, the engine
\* logs the waiting warning, makes no call and sleeps until the next tick;
\* a discrepancy is evaluated, and an order issued, only from two positions
\* read from known states.
C4_AwaitingDataWhenStateAbsent ==
    [][ /\ (epc = "check_state_a" /\ state_a = Absent /\ epc' # epc)
              => (epc' = "sleep_await" /\ elog' = <<"WARN:waiting_state">>
                  /\ out_calls' = <<>> /\ out_eval' = Absent)
        /\ (epc = "check_state_b" /\ state_b = Absent /\ epc' # epc)
              => (epc' = "sleep_await" /\ elog' = <<"WARN:waiting_state">>
                  /\ out_calls' = <<>> /\ out_eval' = Absent)
        /\ epc' = "correct" => (pos_a' # Absent /\ pos_b' # Absent)
        /\ out_eval' # Absent => (out_eval'.a # Absent /\ out_eval'.b # Absent)
        /\ out_calls' # <<>> => out_eval' # Absent
      ]_vars

\* C4 witness: the engine waits for data because B's state is absent while
\* A's is known.
C4_Witness ==
    /\ epc = "sleep_await"
    /\ elog = <<"WARN:waiting_state">>
    /\ state_a # Absent /\ state_b = Absent

\* C5: a tick that fails (a state turned None between the check and its
\* use) is logged as an error and the loop goes on to its inter-tick wait;
\* the loop ends only with is_running false.
C5_TickFailureNotFatal ==
    [][ /\ ( /\ \/ epc = "read_a" /\ state_a = Absent
                \/ epc = "read_b" /\ state_b = Absent
             /\ epc' # epc )
              => (epc' = "wait_check" /\ elog' = <<"ERROR:autobalance">>)
        /\ (epc' = "finished" /\ epc # "finished") => ~is_running
      ]_vars

\* C5 witness: a failed tick has been logged and the running engine is at
\* its inter-tick wait.
C5_Witness ==
    /\ elog = <<"ERROR:autobalance">>
    /\ epc = "wait_check"
    /\ is_running

\* C6: every call the engine makes is create_order on the follower's
\* adapter, never on the benchmark's.
C6_OrdersOnlyOnFollower ==
    \A i \in 1..Len(out_calls) :
        /\ out_calls[i].method = "create_order"
        /\ out_calls[i].api = api_b
        /\ out_calls[i].api # api_a

\* C6 witness: an order was issued while pacifica was the benchmark.
C6_Witness ==
    /\ out_calls # <<>>
    /\ api_a = "pacifica"

\* C7: after stop() the engine loop ends within one 100 ms poll of the
\* flag, in every engine state.
C7_StopLatencyBounded ==
    (stop_requested /\ ~is_running /\ ThreadRunning) => since_stop <= 1

\* C24: the two states check_balance reads for one computation were pushed
\* together: the state_b it reads at line 68 came with the state_a it read at
\* line 67, or that state_a came with this state_b. Stated for the reads of
\* line 68 made while no update_states call is between its two assignments,
\* when _state_a and _state_b are the two halves of the latest push.
C24_PairFromOnePush ==
    [][(check_balance_read_b /\ epc' = "correct" /\ us_pending = <<>>) =>
          (state_b = a_mate \/ [position |-> pos_a] = state_a)]_vars

\* C27: every wait of the running loop uses the interval most recently given
\* to set_config: the wait loop goes on while slept_time is below it (and the
\* worker is running) and ends otherwise, and the waits for adapters or data
\* sleep its whole seconds. Nothing of the adapters enters.
C27_IntervalTakenAtEachWait ==
    [][/\ (epc = "wait_check" /\ epc' # "wait_check") =>
             IF slept_time < interval /\ is_running
             THEN epc' = "msleep" ELSE epc' = "while"
       /\ (epc # "sleep_await" /\ epc' = "sleep_await") =>
             esleep' = SleepSeconds(interval)
      ]_vars

\* the loop has waited longer than the interval it now finds: set_config
\* shortened the interval while the loop was waiting
C27_Witness ==
    /\ epc = "wait_check" /\ is_running
    /\ interval > 0 /\ slept_time > interval

\* the worker runs with both adapters set, and the pair pushed last (the one
\* being assigned, while update_states is between its assignments) has both
\* states known and a discrepancy beyond the tolerance
DiscrepantPush ==
    /\ is_running /\ ThreadRunning
    /\ api_a # None /\ api_b # None
    /\ state_a # Absent /\ StateBMate # Absent
    /\ Abs(Discrepancy(state_a.position, StateBMate.position)) > Epsilon

\* C31: after a corrective order the engine issues no further one until a
\* state of B polled after that order has been delivered to it. Where no
\* update_states call begins after the first order, no such state is ever
\* delivered, so the first order is the only one: every step that issues an
\* order finds that none was issued before.
C31_NoSecondOrderOnStalePair ==
    [][out_calls' # <<>> => since_order = Never]_vars

C32_StopNeverLost ==
    /\ stop_requested ~> epc = "finished"
    /\ [](epc = "finished" => out_calls = <<>>)

\* ----------------------------------------------------- adapters: claims

\* C8: start_streaming on a connected adapter whose poll timer is inactive
\* performs one complete poll before the timer runs: the requests of a poll
\* are sent within the call and, when none of them fails, the price, state
\* and orders are emitted within the call.
C8_StartStreamingPollsImmediately ==
    (last_op.op = "start_streaming" /\ last_op.was_connected
        /\ ~last_op.was_active)
    => /\ net = PollRequests(last_op.r)
       /\ last_op.r.fail = 0 =>
            \A kind \in {"price", "state", "orders"} :
                \E i \in 1..Len(emitted) : emitted[i].kind = kind

\* C9: start_streaming on an adapter without a client sends no request,
\* emits nothing but the error log and leaves the poll timer as it was.
C9_StartStreamingRefusedWithoutClient ==
    (last_op.op = "start_streaming" /\ ~last_op.was_connected)
    => /\ net = <<>>
       /\ emitted = <<Log(last_op.ex, "ERROR:not_connected")>>
       /\ timer_active[last_op.ex] = last_op.was_active

\* C9 witness: start_streaming was called on an adapter that has no client
\* and no running timer, after a failed connect.
C9_Witness ==
    /\ last_op.op = "start_streaming"
    /\ ~last_op.was_connected
    /\ ~last_op.was_active
    /\ ~timer_active[last_op.ex]
    /\ client[last_op.ex] = None

\* C10: stop_streaming leaves the adapter's poll timer inactive whatever the
\* adapter's state was, touches nothing else of either adapter, and changes
\* nothing at all when the timer was already inactive.
C10_StopStreamingHaltsIdempotent ==
    [][ \A ex \in ExchangeIds :
          (last_op'.op = "stop_streaming" /\ last_op'.ex = ex)
          => /\ ~timer_active'[ex]
             /\ \A o \in ExchangeIds \ {ex} : timer_active'[o] = timer_active[o]
             /\ UNCHANGED <<client, ad_symbol, oob>>
             /\ net' = <<>>
             /\ ~timer_active[ex] => UNCHANGED timer_active
      ]_vars

\* C10 witness: stop_streaming was called on a connected adapter whose timer
\* was already inactive, and the timer is inactive.
C10_Witness ==
    /\ last_op.op = "stop_streaming"
    /\ last_op.was_connected
    /\ ~last_op.was_active
    /\ ~timer_active[last_op.ex]

\* The exchange-specific fields of a credential: the wallet address for
\* pacifica, the numeric account id and the L1 address for lighter.
LacksRequiredField(ex, c) ==
    IF ex = "pacifica" THEN ~c.address
    ELSE c.account_id = "absent" \/ ~c.l1

ConnectFailureTags ==
    {"ERROR:connection_error", "ERROR:connection_failed",
     "ERROR:requires_account_id_and_l1"}

\* C11: connect with credentials that lack an exchange-specific required
\* field sends no request and fails (it logs no success and leaves the
\* adapter without a client), on either adapter.
C11_ConnectRejectsMissingField ==
    [][ \A ex \in ExchangeIds, c \in Credentials, resp \in Responses :
          (connect(ex, c, resp) /\ LacksRequiredField(ex, c))
          => /\ net' = <<>>
             /\ emitted'[Len(emitted')].tag \in ConnectFailureTags
      ]_vars

\* C12: after a connect call that failed, whatever the adapter's state
\* before it, the adapter has no client.
C12_FailedConnectLeavesUnconnected ==
    (last_op.op = "connect"
        /\ emitted[Len(emitted)].tag \in ConnectFailureTags)
    => client[last_op.ex] = None

SubmissionOps ==
    {"set_leverage", "create_order", "cancel_order", "cancel_all_orders"}

SuccessTags ==
    {"SUCCESS:connected", "SUCCESS:leverage_set", "SUCCESS:order_submitted",
     "SUCCESS:order_cancelled", "SUCCESS:all_orders_cancelled"}

\* The last handler logged a success as its last event.
Succeeded == emitted # <<>> /\ emitted[Len(emitted)].tag \in SuccessTags

\* C13: no adapter operation retries: a connect call and a set_leverage,
\* create_order, cancel_order or cancel_all_orders call each send at most
\* one request, whether it succeeds or fails, and a call that succeeds has
\* sent exactly one.
C13_NoRetry ==
    (last_op.op \in SubmissionOps \cup {"connect"})
    => /\ Len(net) <= 1
       /\ Succeeded => Len(net) = 1

\* C13 witness: a create_order of a connected adapter failed after its one
\* request.
C13_Witness ==
    /\ last_op.op = "create_order"
    /\ last_op.was_connected
    /\ emitted[Len(emitted)].tag = "ERROR:order_creation_failed"
    /\ Len(net) = 1

\* C14: a set_leverage, create_order, cancel_order or cancel_all_orders on
\* a connected adapter schedules exactly one out-of-band poll when its
\* submission succeeds and none when it fails, and leaves the poll timers
\* and the other adapter's pending polls as they were.
C14_OneOutOfBandPollOnSuccess ==
    [][ \A ex \in ExchangeIds :
          (last_op'.op \in SubmissionOps /\ last_op'.ex = ex
              /\ last_op'.was_connected)
          => /\ oob'[ex] = oob[ex]
                  + (IF emitted'[Len(emitted')].tag \in SuccessTags
                     THEN 1 ELSE 0)
             /\ \A o \in ExchangeIds \ {ex} : oob'[o] = oob[o]
             /\ timer_active' = timer_active
      ]_vars

\* C14 witness: a cancel_order succeeded on a streaming adapter and one
\* out-of-band poll is pending.
C14_Witness ==
    /\ last_op.op = "cancel_order"
    /\ last_op.was_connected
    /\ emitted[Len(emitted)].tag = "SUCCESS:order_cancelled"
    /\ oob[last_op.ex] = 1
    /\ timer_active[last_op.ex]

\* C15: the request of a create_order carries a price when the order is
\* LIMIT and carries none when the order is MARKET, whatever price the
\* caller passed.
C15_PriceOnlyForLimit ==
    (last_op.op = "create_order" /\ net # <<>>)
    => \A i \in 1..Len(net) :
          /\ net[i].order_type = LMT => net[i].priced
          /\ net[i].order_type = MKT => ~net[i].priced

\* The last handler was a poll (periodic or out-of-band) that got past the
\* guard of _poll_data: a poll cycle.
PollCycle ==
    /\ last_op.op \in {"poll_timer_timeout", "single_shot_timeout"}
    /\ last_op.was_connected
    /\ last_op.was_active

DataEvents == SelectSeq(emitted, LAMBDA e : e.kind # "log")

LogEvents == SelectSeq(emitted, LAMBDA e : e.kind = "log")

\* C16: a poll cycle sends its requests in the order price, collateral,
\* positions, orders, and a cycle in which none fails emits exactly one
\* price event, one state event and one orders event, in this order, each
\* carrying the polling adapter's exchange id, and nothing else.
C16_PollOrderAndEvents ==
    PollCycle
    => /\ \A i \in 1..Len(net) :
             net[i].req = <<"price", "collateral", "positions", "orders">>[i]
       /\ last_op.r.fail = 0 =>
             /\ Len(net) = 4
             /\ Len(emitted) = 3
             /\ \A i \in 1..3 :
                   /\ emitted[i].kind = <<"price", "state", "orders">>[i]
                   /\ emitted[i].ex = last_op.ex

\* C16 witness: an out-of-band poll of lighter completed without a failure.
C16_Witness ==
    /\ PollCycle
    /\ last_op.op = "single_shot_timeout"
    /\ last_op.ex = "lighter"
    /\ last_op.r.fail = 0
    /\ Len(net) = 4
    /\ Len(emitted) = 3

\* C17: in a poll cycle whose position payload is absent or empty, the
\* state event is emitted with position NONE, quantity 0, entry price 0 and
\* pnl 0, and the missing position is no failure: a cycle whose fetches all
\* succeed logs nothing.
C17_MissingPositionIsFlat ==
    (PollCycle /\ last_op.r.fail \in {0, 4}
        /\ last_op.r.pos.kind \in {"absent", "empty"})
    => /\ Len(DataEvents) >= 2
       /\ DataEvents[2].kind = "state"
       /\ DataEvents[2].state =
            [position |-> [direction |-> NONE, quantity |-> 0,
                           entryPrice |-> 0],
             pnl |-> 0]
       /\ last_op.r.fail = 0 => LogEvents = <<>>

\* C17 witness: a poll cycle of pacifica got an empty position list and
\* completed with its three events.
C17_Witness ==
    /\ PollCycle
    /\ last_op.ex = "pacifica"
    /\ last_op.r.fail = 0
    /\ last_op.r.pos.kind = "empty"
    /\ Len(emitted) = 3

\* C18: every state event an adapter emits has direction NONE exactly when
\* its quantity is 0.
C18_DirectionNoneIffZero ==
    \A i \in 1..Len(emitted) :
        emitted[i].kind = "state"
        => (emitted[i].state.position.direction = NONE
            <=> emitted[i].state.position.quantity = 0)

\* C19: a poll cycle whose k-th fetch fails with an exchange-reported error
\* sends no later request, emits only the events of the entity kinds
\* completed before it (the state needs both collateral and positions),
\* logs the failure, and leaves the poll timer active.
C19_ExchangeErrorAbortsCycleOnly ==
    (PollCycle /\ last_op.r.fail > 0 /\ ~last_op.r.network)
    => /\ Len(net) = last_op.r.fail
       /\ Len(DataEvents) = <<0, 1, 1, 2>>[last_op.r.fail]
       /\ \A i \in 1..Len(DataEvents) :
             DataEvents[i].kind = <<"price", "state">>[i]
       /\ LogEvents = <<Log(last_op.ex, "ERROR:data_poll_failed")>>
       /\ timer_active[last_op.ex]

\* C19 witness: lighter's positions fetch failed with an exchange error in
\* a periodic poll and the timer is still active.
C19_Witness ==
    /\ PollCycle
    /\ last_op.op = "poll_timer_timeout"
    /\ last_op.ex = "lighter"
    /\ last_op.r.fail = 3
    /\ ~last_op.r.network
    /\ timer_active["lighter"]

\* C20: a poll cycle in which a fetch fails for lack of connectivity logs
\* the failure and leaves the adapter's poll timer inactive, on either
\* adapter.
C20_NetworkErrorStopsStreaming ==
    (PollCycle /\ last_op.r.fail > 0 /\ last_op.r.network)
    => /\ LogEvents # <<>>
       /\ ~timer_active[last_op.ex]

\* C25: an adapter call that does not carry out its action emits at least one
\* log event: a connect, set_leverage, create_order, cancel_order or
\* cancel_all_orders call that does not end in its success log (whether the
\* adapter is connected or not), a start_streaming call on an adapter that is
\* not connected, and a poll cycle one of whose fetches fails. (No handler of
\* the adapters lets an exception out: each has a catch-all around its
\* requests.)
C25_EveryFailureLogged ==
    /\ (last_op.op \in SubmissionOps \cup {"connect"} /\ ~Succeeded)
          => LogEvents # <<>>
    /\ (last_op.op = "start_streaming" /\ ~last_op.was_connected)
          => LogEvents # <<>>
    /\ (PollCycle /\ last_op.r.fail > 0) => LogEvents # <<>>

\* the credentials whose signing secret cannot sign: empty, or (Pacifica,
\* whose secret is a base58 Ed25519 seed) malformed; the other fields are set
\* so that connect reaches the signer
UnusableSecret(ex, c) ==
    /\ c.key
    /\ IF ex = "pacifica" THEN c.secret # "good"
       ELSE c.secret = "empty" /\ c.account_id = "set" /\ c.l1

DataEventsOf(events) ==
    LET data(e) == e.kind \in {"price", "state", "orders"}
    IN SelectSeq(events, data)

\* C36: an adapter whose poll timer is stopped stays stopped until
\* start_streaming is called on it, and a _poll_data that runs meanwhile (the
\* out-of-band poll scheduled 500 ms after an earlier submission) sends no
\* request and emits no price, state or orders event.
C36_StoppedAdapterIsSilent ==
    [][\A ex \in ExchangeIds :
          (~timer_active[ex]
             /\ ~(last_op'.op = "start_streaming" /\ last_op'.ex = ex)) =>
              /\ ~timer_active'[ex]
              /\ (last_op'.ex = ex
                    /\ last_op'.op \in {"poll_timer_timeout",
                                        "single_shot_timeout"}) =>
                     (net' = <<>> /\ DataEventsOf(emitted') = <<>>)
      ]_vars

\* an out-of-band poll fired on a connected adapter whose timer had been
\* stopped: nothing was sent and the timer is still stopped
C36_Witness ==
    /\ last_op.op = "single_shot_timeout"
    /\ last_op.was_connected /\ ~last_op.was_active
    /\ net = <<>> /\ DataEventsOf(emitted) = <<>>
    /\ ~timer_active[last_op.ex]

\* C39: LighterAPI.connect fails its field validation only when a required
\* field is missing: with an account id supplied (0 included) and an L1
\* address, connect does not end in the "requires Account ID and L1 Address"
\* error but goes on to build the client and make the credential-check call.
C39_LighterValidatesPresenceOnly ==
    [][\A c \in Credentials, resp \in Responses :
          (connect("lighter", c, resp) /\ c.account_id # "absent" /\ c.l1) =>
              \A i \in 1 .. Len(emitted') :
                  emitted'[i].tag # "ERROR:requires_account_id_and_l1"
      ]_vars

\* --------------------------------------------------------- store: claims

\* the stored orders of one exchange, in stored order
OrdersOf(orders, ex) ==
    LET mine(o) == o.exchangeId = ex IN SelectSeq(orders, mine)

\* C21: after on_orders_update(X, orders) the stored orders of X are exactly
\* `orders` (none older survives, none is duplicated) and the stored orders of
\* every other exchange are what they were.
C21_OrdersReplacedPerExchange ==
    [][\A ex \in ExchangeIds : \A orders \in OrderLists(ex) :
          on_orders_update(ex, orders) =>
              /\ OrdersOf(open_orders', ex) = orders
              /\ \A other \in ExchangeIds \ {ex} :
                    OrdersOf(open_orders', other) = OrdersOf(open_orders, other)
              /\ Len(open_orders') =
                    Len(orders) + Len(open_orders) - Len(OrdersOf(open_orders, ex))
      ]_vars

\* an update of pacifica has replaced its order 1 by its order 2 while an
\* order of lighter is stored
C21_Witness ==
    /\ m_op = MainOp("on_orders_update", "pacifica")
    /\ Len(open_orders) = 2
    /\ open_orders[1].exchangeId = "lighter"
    /\ open_orders[2] = [id |-> 2, exchangeId |-> "pacifica"]

\* C22: on_state_update(X, s) leaves the stored state of X equal to s and the
\* states of the other exchanges, the prices and the open orders as they
\* were; on_price_update(X, p) leaves the price of X equal to p and changes
\* nothing else of the store.
C22_StateAndPriceReplaced ==
    [][/\ \A ex \in ExchangeIds, s \in ExchangeStates :
             on_state_update(ex, s) =>
                 /\ exchange_states'[ex] = s
                 /\ \A other \in ExchangeIds \ {ex} :
                       exchange_states'[other] = exchange_states[other]
                 /\ UNCHANGED <<prices, open_orders>>
       /\ \A ex \in ExchangeIds, p \in Prices :
             on_price_update(ex, p) =>
                 /\ prices'[ex] = p
                 /\ \A other \in ExchangeIds \ {ex} :
                       prices'[other] = prices[other]
                 /\ UNCHANGED <<exchange_states, open_orders, order_symbol,
                                selected_A, selected_B>>
      ]_vars

\* a second state of lighter has replaced its first while pacifica's state,
\* a price and an order are stored
C22_Witness ==
    /\ m_op = MainOp("on_state_update", "lighter")
    /\ exchange_states["lighter"] # Absent
    /\ exchange_states["lighter"].position.direction = SHORT
    /\ exchange_states["pacifica"] # Absent
    /\ exchange_states["pacifica"].position.direction = LONG
    /\ prices["pacifica"] = 2
    /\ open_orders # <<>>

\* ----------------------------------------------- selection: claims

\* C23: every state update pushes the pair (state of selected A, state of
\* selected B), None standing for an unselected or unknown side, and the pair
\* the worker evaluates (both of its states known) is the store's pairing of
\* the selected exchanges.
C23_EnginePairIsStorePairing ==
    /\ m_op.op = "on_state_update" =>
          m_pushed = <<StateOf(exchange_states, selected_A),
                       StateOf(exchange_states, selected_B)>>
    /\ (worker /\ state_a # Absent /\ state_b # Absent) =>
          /\ state_a = StateOf(exchange_states, selected_A)
          /\ state_b = StateOf(exchange_states, selected_B)

C34_OrderOnSelectedSymbol ==
    [][(check_balance_correct /\ out_calls' # <<>>) =>
          out_calls'[1].symbol = order_symbol]_vars

\* C35: when the engine evaluates a pair, the store holds a state of both
\* selected exchanges: the store is emptied by a symbol change and filled by
\* the polls on the new symbol alone, so the pair is not one of the symbol
\* before.
C35_EvaluatesCurrentSymbolOnly ==
    [][(check_balance_correct /\ out_eval' # Absent) =>
          /\ StateOf(exchange_states, selected_A) # Absent
          /\ StateOf(exchange_states, selected_B) # Absent]_vars

\* ---------------------------------------------------- successor: claims

\* C33: no corrective order comes from a worker that was stopped while the
\* worker created after it is running.
C33_NoOrderBesideSuccessor ==
    [][(check_balance_correct /\ out_calls' # <<>>) =>
          ~(stop_requested /\ worker)]_vars

\* ------------------------------------------- worker and follower: claims

\* the engine step just taken logged the SUCCESS "order submitted" message
EngineLoggedSuccess ==
    \E i \in 1 .. Len(elog') : elog'[i] = "SUCCESS:order_submitted"

\* the follower's adapter sent the order and the exchange accepted it
AdapterSubmitted ==
    /\ net' # <<>>
    /\ \E i \in 1 .. Len(emitted') :
          emitted'[i] = Log(api_b, "SUCCESS:order_submitted")

\* C40: a tick that calls create_order logs SUCCESS and enters the 3 s
\* cooldown only when the follower's adapter submitted the order; when the
\* submission fails (the exchange answers with an error, cannot be reached,
\* or the adapter has no client) the engine logs an error and goes on without
\* the cooldown.
C40_SuccessOnlyWhenSubmitted ==
    [][\A resp \in Responses :
          (check_balance_submit(resp) /\ out_calls' # <<>>) =>
              IF AdapterSubmitted
              THEN EngineLoggedSuccess /\ epc' = "cooldown"
              ELSE /\ ~EngineLoggedSuccess
                   /\ epc' # "cooldown"
                   /\ \E i \in 1 .. Len(elog') : elog'[i] = "ERROR:autobalance"
      ]_vars

\* ------------------------------------------------ authentication: claims

\* C37: every exchange listed in authenticated_exchanges has a connected
\* adapter: api_clients holds it and its client is not None.
C37_AuthenticatedIsConnected ==
    \A ex \in authenticated_exchanges :
        ex \in api_clients /\ client[ex] # None

\* --------------------------------------------------- manual orders: claims

\* C26: a strategy order or an individual order whose quantity is not
\* positive, and a strategy order with no direction button checked, writes a
\* log entry and calls no adapter.
C26_InvalidOrderRejected ==
    [][/\ \A quantity \in Quantities, direction \in {LONG, SHORT, NONE} :
             (/\ on_execute_strategy_order(quantity, direction)
              /\ (quantity <= 0 \/ direction = NONE))
             => (m_log' # <<>> /\ m_log'[1] # "INFO" /\ m_calls' = <<>>)
       /\ \A side \in {"A", "B"}, order_type \in {MKT, LMT},
             direction \in {LONG, SHORT}, quantity \in Quantities :
             (/\ execute_individual_order(side, order_type, direction, quantity)
              /\ quantity <= 0)
             => (m_log' # <<>> /\ m_log'[1] # "INFO" /\ m_calls' = <<>>)
      ]_vars

\* a strategy order with both sides selected, an adapter and a price for A
\* has been turned down: its quantity or its direction was the reason
C26_Witness ==
    /\ m_op.op = "on_execute_strategy_order"
    /\ selected_A # None /\ selected_B # None
    /\ selected_A \in api_clients
    /\ prices[selected_A] # NoPrice
    /\ m_log = <<"WARN">>
    /\ m_calls = <<>>

\* ------------------------------------------------------- signers: claims

\* two requests signed with the same signer and secret
SamePair == signed.ex # None /\ signed_before.ex = signed.ex
            /\ signed_before.secret = signed.secret

\* in how many of method, path, params and timestamp the two requests differ
Changed ==
    (IF signed.method # signed_before.method THEN 1 ELSE 0)
    + (IF signed.path # signed_before.path THEN 1 ELSE 0)
    + (IF signed.params # signed_before.params THEN 1 ELSE 0)
    + (IF signed.timestamp # signed_before.timestamp THEN 1 ELSE 0)

\* C29: with either signer, the same secret, method, path, params and
\* timestamp give the same signed message and signature, and a change of one
\* of method, path, params or timestamp (the query params of a GET included)
\* gives another message and another signature.
C29_SignerDeterminedByInputs ==
    SamePair =>
       /\ Changed = 0 => (/\ signed.message = signed_before.message
                          /\ signed.signature = signed_before.signature)
       /\ Changed = 1 => (/\ signed.message # signed_before.message
                          /\ signed.signature # signed_before.signature)

====
